---- MODULE Spec2Model ----
(***************************************************************************)
(* Model of the timezone-preserving ISO parser of real-world-ts:           *)
(* parseISOToDateInTimezone and getISOTimezoneOffset.                      *)
(*                                                                         *)
(* A JavaScript string is a sequence of one-character strings.  A          *)
(* JavaScript value is a record                                            *)
(*     [typ |-> typeof value, cls |-> its class, s |-> text, a |-> items,   *)
(*      ctor |-> constructor arguments]                                    *)
(* where s is the string's characters (for a primitive: the characters of  *)
(* String(value)), a is an array's items, each a JavaScript string, and    *)
(* ctor is, for a TZDate, the arguments it was constructed from.           *)
(***************************************************************************)
EXTENDS Integers, Sequences, FiniteSets, TLC

VARIABLES dateStr, NODE_ENV, pc, outcome, events

vars == <<dateStr, NODE_ENV, pc, outcome, events>>

---------------------------------------------------------------------------
(* Bounds of the input space *)

\* longest unsanitized string drawn over Alphabet
MaxLen == 5
\* longest array passed where a string is expected
MaxItems == 2

---------------------------------------------------------------------------
(* JavaScript values *)

Str(chars) ==
    [typ |-> "string", cls |-> "String", s |-> chars, a |-> <<>>, ctor |-> <<>>]
Arr(items) ==
    [typ |-> "object", cls |-> "Array", s |-> <<>>, a |-> items, ctor |-> <<>>]
Prim(t, c, text) ==
    [typ |-> t, cls |-> c, s |-> text, a |-> <<>>, ctor |-> <<>>]

Undefined == Prim("undefined", "Undefined", <<"u","n","d","e","f","i","n","e","d">>)
Null == Prim("object", "Null", <<"n","u","l","l">>)
False == Prim("boolean", "Boolean", <<"f","a","l","s","e">>)
True == Prim("boolean", "Boolean", <<"t","r","u","e">>)
Zero == Prim("number", "Number", <<"0">>)
NaN == Prim("number", "Number", <<"N","a","N">>)
Five == Prim("number", "Number", <<"5">>)
\* a plain object such as a moment() instance without string methods
PlainObject == Prim("object", "Object",
    <<"[","o","b","j","e","c","t"," ","O","b","j","e","c","t","]">>)

UTC == Str(<<"U","T","C">>)

\* `!dateStr`
Falsy(v) ==
    \/ v.cls \in {"Undefined", "Null"}
    \/ v.cls = "String" /\ v.s = <<>>
    \/ v.cls = "Boolean" /\ v = False
    \/ v.cls = "Number" /\ v \in {Zero, NaN}

RECURSIVE Join(_)
\* Array.prototype.join(",") over items that are strings
Join(items) ==
    IF items = <<>> THEN <<>>
    ELSE IF Len(items) = 1 THEN items[1]
    ELSE items[1] \o <<",">> \o Join(Tail(items))

\* String(value)
String(v) == IF v.cls = "Array" THEN Str(Join(v.a)) ELSE Str(v.s)

\* the value has the methods includes, at, lastIndexOf and slice
HasSequenceMethods(v) == v.cls \in {"String", "Array"}

\* the elements the sequence methods range over: a string's characters,
\* an array's items; each one a JavaScript string
Elems(v) == IF v.cls = "String" THEN [i \in 1..Len(v.s) |-> <<v.s[i]>>] ELSE v.a

\* value.includes(c) for a one-character c
includes(v, c) == \E i \in 1..Len(Elems(v)) : Elems(v)[i] = <<c>>

\* value.at(-1) === c
lastIs(v, c) == Len(Elems(v)) > 0 /\ Elems(v)[Len(Elems(v))] = <<c>>

RECURSIVE ScanBack(_, _, _)
\* the 0-based index of the rightmost element equal to c at or before
\* 1-based position i, -1 when there is none
ScanBack(e, c, i) ==
    IF i = 0 THEN -1
    ELSE IF e[i] = <<c>> THEN i - 1
    ELSE ScanBack(e, c, i - 1)

RECURSIVE ScanForward(_, _, _)
ScanForward(e, c, i) ==
    IF i > Len(e) THEN -1
    ELSE IF e[i] = <<c>> THEN i - 1
    ELSE ScanForward(e, c, i + 1)

\* value.indexOf(c): the leftmost occurrence
indexOf(v, c) == ScanForward(Elems(v), c, 1)

\* value.lastIndexOf(c)
lastIndexOf(v, c) == ScanBack(Elems(v), c, Len(Elems(v)))

\* value.slice(start + 1): drops the matched element itself
sliceAfter(v, start) ==
    IF v.cls = "String" THEN Str(SubSeq(v.s, start + 2, Len(v.s)))
    ELSE Arr(SubSeq(v.a, start + 2, Len(v.a)))

\* value.slice(start) for a 0-based start >= 0
slice(v, start) ==
    IF v.cls = "String" THEN Str(SubSeq(v.s, start + 1, Len(v.s)))
    ELSE Arr(SubSeq(v.a, start + 1, Len(v.a)))

---------------------------------------------------------------------------
(* Outcomes of a call *)

Return(v) == [kind |-> "return", value |-> v]
Throw(e) == [kind |-> "throw", value |-> Str(e)]
TypeError == <<"T","y","p","e","E","r","r","o","r">>
NoOutcome == [kind |-> "none", value |-> Undefined]

---------------------------------------------------------------------------
(* getISOTimezoneOffset *)

\* never short-circuits on the trailing "Z"
isDateUTCNever(v) == FALSE

\* const isDateUTC = dateStr.at(-1) === "Z"
isDateUTC(v) == lastIs(v, "Z")

\* a minus anywhere counts, wherever the last colon is
isNegativeOffsetAnyMinus(neg, colon) == neg > -1

\* the minus is the sign of an offset, not a separator of YYYY-MM-DD
isNegativeOffset(neg, colon) == neg > -1 /\ colon > -1 /\ neg > colon

\* the index of the first plus instead of the last
positiveTzOffsetFirstIndex(v) == indexOf(v, "+")

\* const positiveTzOffsetStartIndex = dateStr.lastIndexOf("+")
positiveTzOffsetStartIndex(v) == lastIndexOf(v, "+")

\* the first minus instead of the last
negativeTzOffsetFirstIndex(v) == indexOf(v, "-")

\* const negativeTzOffsetStartIndex = dateStr.lastIndexOf("-")
negativeTzOffsetStartIndex(v) == lastIndexOf(v, "-")

\* const lastColonCharacterIndex = dateStr.lastIndexOf(":")
lastColonCharacterIndex(v) == lastIndexOf(v, ":")

\* the text of the offset without its sign
offsetSuffixAfter(v, start) == sliceAfter(v, start)

\* dateStr.slice(index)
offsetSuffix(v, start) == slice(v, start)

getISOTimezoneOffset(v) ==
    IF Falsy(v) THEN Return(UTC)
    ELSE IF ~HasSequenceMethods(v) THEN Throw(TypeError)
    ELSE IF ~includes(v, "T") THEN Return(UTC)
    ELSE IF isDateUTC(v) THEN Return(UTC)
    ELSE IF positiveTzOffsetStartIndex(v) > -1
         THEN Return(offsetSuffix(v, positiveTzOffsetStartIndex(v)))
    ELSE IF isNegativeOffset(negativeTzOffsetStartIndex(v), lastColonCharacterIndex(v))
         THEN Return(offsetSuffix(v, negativeTzOffsetStartIndex(v)))
    ELSE Return(UTC)

---------------------------------------------------------------------------
(* parseISOToDateInTimezone *)

\* what the call does besides returning, in order
Warn(v) == [op |-> "console.warn", args |-> <<v>>]
ReadEnv == [op |-> "process.env.NODE_ENV", args |-> <<>>]
CallOffset(v) == [op |-> "getISOTimezoneOffset", args |-> <<v>>]
New(args) == [op |-> "new TZDate", args |-> args]

\* the TZDate a constructor call yields, by its arguments
TZDate(args) ==
    [typ |-> "object", cls |-> "TZDate", s |-> <<>>, a |-> <<>>, ctor |-> args]

\* treats "" as present: only undefined and null are absent
isAbsentNullish(v) == v.cls \in {"Undefined", "Null"}

\* if (!dateStr)
isAbsent(v) == Falsy(v)

\* typeof misspelt, so that every value looks like a non-string
isNonStringAlways(v) == TRUE

\* typeof dateStr !== "string"
isNonString(v) == v.typ # "string"

\* coerces in every mode
isProductionAlways(env) == TRUE

\* process.env.NODE_ENV === "production"
isProduction(env) == env = "production"

\* the steps of one call: [events, outcome]
parseISOToDateInTimezone(v, env) ==
    IF isAbsent(v)
    THEN [events |-> <<New(<<>>)>>, outcome |-> Return(TZDate(<<>>))]
    ELSE
      LET guard == IF isNonString(v) THEN <<Warn(v), ReadEnv>> ELSE <<>>
          d == IF isNonString(v) /\ isProduction(env) THEN String(v) ELSE v
          off == getISOTimezoneOffset(d)
      IN IF off.kind = "throw"
         THEN [events |-> guard \o <<CallOffset(d)>>, outcome |-> off]
         ELSE [events |-> guard \o <<CallOffset(d), New(<<d, off.value>>)>>,
               outcome |-> Return(TZDate(<<d, off.value>>))]

---------------------------------------------------------------------------
(* The zoned-datetime collaborator: new TZDate(dateStr, timeZone) reads    *)
(* dateStr as an instant, honouring the offset written in it, and shows    *)
(* that instant on the wall clock of timeZone.                             *)

Digits == <<"0","1","2","3","4","5","6","7","8","9">>

IsDigit(ch) == \E d \in 1..Len(Digits) : Digits[d] = ch

DigitValue(ch) == (CHOOSE d \in 1..Len(Digits) : Digits[d] = ch) - 1

\* the number written by the two digits at positions i and i + 1
TwoDigits(s, i) == DigitValue(s[i]) * 10 + DigitValue(s[i + 1])

AreDigits(s, from, to) == to <= Len(s) /\ \A i \in from..to : IsDigit(s[i])

\* an offset literal "+HHMM", "+HH:MM", "-HHMM" or "-HH:MM"
IsOffsetText(z) ==
    /\ Len(z) \in {5, 6}
    /\ z[1] \in {"+", "-"}
    /\ AreDigits(z, 2, 3)
    /\ IF Len(z) = 6 THEN z[4] = ":" /\ AreDigits(z, 5, 6) ELSE AreDigits(z, 4, 5)

\* minutes east of UTC an offset literal stands for
OffsetMinutes(z) ==
    LET mag == TwoDigits(z, 2) * 60 + TwoDigits(z, Len(z) - 1)
    IN IF z[1] = "-" THEN 0 - mag ELSE mag

\* tzOffset(timeZone): minutes east of UTC; defined for "UTC" and offsets
IsTimeZone(z) == z = UTC.s \/ IsOffsetText(z)
tzOffset(z) == IF z = UTC.s THEN 0 ELSE OffsetMinutes(z)

\* "YYYY-MM-DDTHH:mm", then ":ss" or nothing, then "Z" or an offset
IsDateTimeText(s) ==
    /\ Len(s) >= 17
    /\ AreDigits(s, 1, 4) /\ s[5] = "-" /\ AreDigits(s, 6, 7) /\ s[8] = "-"
    /\ AreDigits(s, 9, 10) /\ s[11] = "T"
    /\ AreDigits(s, 12, 13) /\ s[14] = ":" /\ AreDigits(s, 15, 16)
    /\ LET z == IF s[17] = ":" THEN 20 ELSE 17
       IN /\ s[17] = ":" => AreDigits(s, 18, 19)
          /\ z <= Len(s)
          /\ \/ SubSeq(s, z, Len(s)) = <<"Z">>
             \/ IsOffsetText(SubSeq(s, z, Len(s)))

SecondsPerDay == 86400

\* the instant's second of the UTC day
UtcSecondOfDay(s) ==
    LET hasSec == s[17] = ":"
        sec == IF hasSec THEN TwoDigits(s, 18) ELSE 0
        z == SubSeq(s, IF hasSec THEN 20 ELSE 17, Len(s))
        off == IF z = <<"Z">> THEN 0 ELSE OffsetMinutes(z)
    IN (TwoDigits(s, 12) * 3600 + TwoDigits(s, 15) * 60 + sec - off * 60)
         % SecondsPerDay

\* the constructed date is not "Invalid Date"
IsValidDate(d) ==
    /\ d.cls = "TZDate" /\ Len(d.ctor) = 2
    /\ d.ctor[1].cls = "String" /\ IsDateTimeText(d.ctor[1].s)
    /\ d.ctor[2].cls = "String" /\ IsTimeZone(d.ctor[2].s)

WallSecondOfDay(d) ==
    (UtcSecondOfDay(d.ctor[1].s) + tzOffset(d.ctor[2].s) * 60) % SecondsPerDay

getHours(d) == WallSecondOfDay(d) \div 3600
getMinutes(d) == (WallSecondOfDay(d) % 3600) \div 60
getSeconds(d) == WallSecondOfDay(d) % 60

---------------------------------------------------------------------------
(* Inputs *)

\* the characters the offset scan tells apart, and one it does not
Alphabet == {"T", "Z", "+", "-", ":", "0"}

\* unsanitized strings, the empty one included
RawStrings == UNION {[1..n -> Alphabet] : n \in 0..MaxLen}

Pad2(n) == <<Digits[(n \div 10) + 1], Digits[(n % 10) + 1]>>

Dates == {<<"2","0","2","0","-","1","0","-","1","4">>,
          <<"2","0","1","9","-","0","3","-","0","2">>}

\* what is written in a timestamp: second -1 when the seconds are left
\* out; zone "numeric" (sign, oh, om, colon), "Z" or "none"
IsoFields ==
    [date : Dates, hour : {0, 14, 23}, minute : {3, 59}, second : {-1, 0, 59},
     zone : {"numeric"}, sign : {"+", "-"}, oh : {0, 2, 11}, om : {0, 30},
     colon : BOOLEAN]
    \cup
    [date : Dates, hour : {0, 14, 23}, minute : {3, 59}, second : {-1, 0, 59},
     zone : {"Z", "none"}, sign : {"+"}, oh : {0}, om : {0}, colon : {FALSE}]

OffsetText(f) ==
    <<f.sign>> \o Pad2(f.oh) \o (IF f.colon THEN <<":">> ELSE <<>>) \o Pad2(f.om)

ZoneText(f) ==
    IF f.zone = "numeric" THEN OffsetText(f)
    ELSE IF f.zone = "Z" THEN <<"Z">> ELSE <<>>

\* the timestamp as it is written
Render(f) ==
    f.date \o <<"T">> \o Pad2(f.hour) \o <<":">> \o Pad2(f.minute)
      \o (IF f.second >= 0 THEN <<":">> \o Pad2(f.second) ELSE <<>>)
      \o ZoneText(f)

IsoStrings == {Render(f) : f \in IsoFields} \cup Dates

\* the items of an array passed where a string is expected
ArrayItems == {<<"T">>, <<"Z">>, <<"+">>, <<"-">>, <<":">>}

Arrays == UNION {[1..n -> ArrayItems] : n \in 0..MaxItems}

NonStrings ==
    {Undefined, Null, False, True, Zero, NaN, Five, PlainObject}
      \cup {Arr(a) : a \in Arrays}

Inputs == {Str(s) : s \in RawStrings \cup IsoStrings} \cup NonStrings

Modes == {"production", "development", "test"}

---------------------------------------------------------------------------
(* The calls *)

Init ==
    /\ dateStr \in Inputs
    /\ NODE_ENV \in Modes
    /\ pc = "ready"
    /\ outcome = NoOutcome
    /\ events = <<>>

\* a call of parseISOToDateInTimezone(dateStr)
CallParseISOToDateInTimezone ==
    /\ pc = "ready"
    /\ pc' = "parsed"
    /\ events' = parseISOToDateInTimezone(dateStr, NODE_ENV).events
    /\ outcome' = parseISOToDateInTimezone(dateStr, NODE_ENV).outcome
    /\ UNCHANGED <<dateStr, NODE_ENV>>

\* a direct call of getISOTimezoneOffset(dateStr), as the tests make
CallGetISOTimezoneOffset ==
    /\ pc = "ready"
    /\ pc' = "extracted"
    /\ events' = <<>>
    /\ outcome' = getISOTimezoneOffset(dateStr)
    /\ UNCHANGED <<dateStr, NODE_ENV>>

Next == CallParseISOToDateInTimezone \/ CallGetISOTimezoneOffset

Spec == Init /\ [][Next]_vars

---------------------------------------------------------------------------
(* Vocabulary of the properties *)

Has(s, c) == \E i \in 1..Len(s) : s[i] = c

\* position i holds the rightmost c of s
IsLast(s, c, i) == s[i] = c /\ \A j \in (i + 1)..Len(s) : s[j] # c

Suffix(s, i) == SubSeq(s, i, Len(s))

Range(q) == {q[i] : i \in 1..Len(q)}

IsString == dateStr.cls = "String"

EmptyOrFalsy == dateStr \in {Str(<<>>), Undefined, Null, False, Zero, NaN}

TruthyNonString == ~IsString /\ ~EmptyOrFalsy

\* the input has a time part and no trailing "Z"
ScansForOffset == IsString /\ Has(dateStr.s, "T") /\ dateStr.s[Len(dateStr.s)] # "Z"

\* a signed 5-character offset (+|-)HHMM
IsHHMM(z) == Len(z) = 5 /\ z[1] \in {"+", "-"} /\ \A i \in 2..5 : IsDigit(z[i])

WrittenSecond(f) == IF f.second < 0 THEN 0 ELSE f.second

---------------------------------------------------------------------------
(* C1 *)

\* C1: for every ISO timestamp with an explicit numeric offset, the value
\* parseISOToDateInTimezone returns is a valid date whose wall-clock hour,
\* minute and second are the ones written in the string.
C1_WallClockPreserved ==
    (pc = "parsed" /\ IsString /\ dateStr.s \notin RawStrings) =>
      \A f \in IsoFields :
        (f.zone = "numeric" /\ dateStr.s = Render(f)) =>
          /\ outcome.kind = "return"
          /\ IsValidDate(outcome.value)
          /\ getHours(outcome.value) = f.hour
          /\ getMinutes(outcome.value) = f.minute
          /\ getSeconds(outcome.value) = WrittenSecond(f)

---------------------------------------------------------------------------
(* C2 *)

---------------------------------------------------------------------------
(* C3 *)

---------------------------------------------------------------------------
(* C4 *)

\* C4: no call of parseISOToDateInTimezone or getISOTimezoneOffset raises
\* an exception, whatever the input and the execution mode.
C4_NeverThrows == pc \in {"parsed", "extracted"} => outcome.kind = "return"

---------------------------------------------------------------------------
(* C5 *)

\* C5: for every non-empty string, parseISOToDateInTimezone calls
\* getISOTimezoneOffset on the input unchanged and constructs its result
\* from (input, that offset), with no warning, in every execution mode.
C5_StringPath ==
    (pc = "parsed" /\ IsString /\ dateStr.s # <<>>) =>
      LET off == getISOTimezoneOffset(dateStr)
      IN /\ off.kind = "return"
         /\ events = <<CallOffset(dateStr), New(<<dateStr, off.value>>)>>
         /\ outcome = Return(TZDate(<<dateStr, off.value>>))
         /\ \A e \in Range(events) : e.op \notin {"console.warn", "process.env.NODE_ENV"}

\* a string was parsed in production mode and in another mode
C5_Witness ==
    /\ pc = "parsed"
    /\ NODE_ENV = "production"
    /\ dateStr = Str(<<"T", ":", "-", "0">>)
    /\ outcome = Return(TZDate(<<dateStr, Str(<<"-", "0">>)>>))

---------------------------------------------------------------------------
(* C6 *)

\* C6: getISOTimezoneOffset returns "UTC" for every input that is empty or
\* falsy, that has no "T", or that ends in "Z", whatever "+" or "-" it holds.
C6_UtcShortCircuits ==
    (/\ pc = "extracted"
     /\ \/ EmptyOrFalsy
        \/ IsString /\ ~Has(dateStr.s, "T")
        \/ IsString /\ dateStr.s[Len(dateStr.s)] = "Z")
      => outcome = Return(UTC)

\* a string with a "T" and a "+" that ends in "Z" gave "UTC"
C6_Witness ==
    /\ pc = "extracted"
    /\ dateStr = Str(<<"T", "+", "0", "Z">>)
    /\ outcome = Return(UTC)

---------------------------------------------------------------------------
(* C7 *)

\* C7: for an empty or falsy input parseISOToDateInTimezone does one thing,
\* the zero-argument construction: no offset extraction, no warning, no
\* read of the execution mode.
C7_FalsyIsNow ==
    (pc = "parsed" /\ EmptyOrFalsy) =>
      /\ events = <<New(<<>>)>>
      /\ outcome = Return(TZDate(<<>>))

\* the empty string was parsed
C7_Witness ==
    /\ pc = "parsed"
    /\ dateStr = Str(<<>>)
    /\ outcome = Return(TZDate(<<>>))

---------------------------------------------------------------------------
(* C8 *)

---------------------------------------------------------------------------
(* C9 *)

\* C9: when the string has a "T", does not end in "Z" and holds a "+",
\* getISOTimezoneOffset returns the suffix that starts at the rightmost "+",
\* even when a "-" follows that "+" and the last ":".
C9_LastPlusWins ==
    (pc = "extracted" /\ ScansForOffset /\ Has(dateStr.s, "+")) =>
      \E i \in 1..Len(dateStr.s) :
        /\ IsLast(dateStr.s, "+", i)
        /\ outcome = Return(Str(Suffix(dateStr.s, i)))

\* two "+", then a "-" after the last ":" and the last "+"
C9_Witness ==
    /\ pc = "extracted"
    /\ dateStr = Str(<<"T", "+", ":", "+", "-">>)
    /\ outcome = Return(Str(<<"+", "-">>))

---------------------------------------------------------------------------
(* C10 *)

\* C10: when the string has a "T", does not end in "Z" and holds no "+":
\* if its rightmost "-" lies after its last ":" the suffix starting at that
\* "-" is returned, and otherwise "UTC"; a "-" of the date part alone is
\* never taken for an offset.
C10_MinusAfterLastColon ==
    (pc = "extracted" /\ ScansForOffset /\ ~Has(dateStr.s, "+")) =>
      LET s == dateStr.s
          signs == {i \in 1..Len(s) :
                      /\ IsLast(s, "-", i)
                      /\ \E k \in 1..(i - 1) : s[k] = ":"
                      /\ \A j \in (i + 1)..Len(s) : s[j] # ":"}
      IN IF signs # {}
         THEN \A i \in signs : outcome = Return(Str(Suffix(s, i)))
         ELSE outcome = Return(UTC)

\* a timestamp whose only "-" are the date's gave "UTC"
C10_Witness ==
    /\ pc = "extracted"
    /\ dateStr = Str(<<"2","0","2","0","-","1","0","-","1","4","T",
                       "1","4",":","0","3",":","0","0">>)
    /\ outcome = Return(UTC)

====
